---- MODULE Spec2Model ----
(***************************************************************************)
(* Model of the question-extractor pipeline:                               *)
(*   - process_claude.py        call_claude_api and its main loop          *)
(*   - process_questions_v2.py  call_perplexity_api, the batch             *)
(*                              orchestrator, the progress file, the batch *)
(*                              stores, the failure log and the merge      *)
(*   - process_questions.py     the first script's main loop               *)
(*   - cost_tracker.py          CostTracker.record_call                    *)
(*   - pdf_extractor.py, pdf_extractor_v3.py  find_section_bounds          *)
(*   - pdf_extractor.py         extract_physics_questions_improved         *)
(*   - question_validator.py    validate_question_completeness             *)
(* One script runs per behaviour (variable prog).                          *)
(***************************************************************************)
EXTENDS Integers, Sequences, FiniteSets, TLC

VARIABLES
    prog,          \* the script that runs: "claude", "v2" or "v1"
    questions,     \* the list of raw records the extractor handed to main
    max_retries,   \* model_config.max_retries (MAX_RETRIES in the first script)
    launches,      \* how many times the script is launched over the same directory
    \* ---- one invocation of the generation client
    cpc,           \* position in the client: idle, attempt, error_delay, rate_limit_delay, returned
    attempt,       \* the loop variable of the retry loop
    cq,            \* index in questions of the record the client was called for
    pending,       \* <<result>> while a return waits for the finally block, else <<>>
    ret,           \* what the client returned: <<result>>, or <<>> for None (in the
                   \* first script: for the RuntimeError raised after the last attempt)
    http_log,      \* every HTTP attempt of this invocation, in order: <<"ok" or "fail",
                   \* the correctOption of the parsed object, if one was parsed>>
    cost_tracker,  \* the CostTracker of the run
    tracker_at_call, \* cost_tracker when the invocation started
    sent,          \* indices of the records an HTTP request was sent for
    generated,     \* <<question number, outcome>> of every finished invocation: the id
                   \* of the result, "malformed" for a result the validator raises on,
                   \* or "failed"
    \* ---- the main loop of the script
    pc,            \* position in main
    idx,           \* index in questions of the record the loop is at
    all_results,   \* the results collected by the run
    output,        \* the final dataset file: <<>> when not written, else <<questions>>
    exit_code,     \* what main returned: None while it runs or when the process was killed
    failures,      \* process_questions.py: the numbers of the questions that failed
    \* ---- process_questions_v2.py: the arguments and locals of the orchestrator
    batch_size,    \* --batch-size
    resume,        \* --resume / --no-resume of the current run
    dry_run,       \* --dry-run of the current run
    progress,      \* the progress dict in memory
    i,             \* start index (0-based) of the current batch
    batch_num,     \* the counter of enumerate()
    actual_batch_num, \* the number the current batch is stored under
    batch_results, \* the results of the current batch
    runs,          \* runs of main started so far over the same directory
    summary_printed, \* whether the run has printed the summary of the cost tracker
    \* ---- process_questions_v2.py: the files
    progress_file, \* processing_progress.json
    batch_files,   \* batches/batch_NNNN.json, by batch number
    failed_log,    \* failed_questions.log, one <<number, reason>> per line
    \* ---- pdf_extractor.py and pdf_extractor_v3.py
    pages,         \* the page texts: of each page the section headers it holds
    bounds,        \* what find_section_bounds returned: <<>>, or <<start_page, end_page>>
    \* ---- question_validator.py
    question,      \* <<the structured question validate_question_completeness is given>>
    validation,    \* what it returned: <<>>, or <<is_valid, errors>>
    \* ---- pdf_extractor.py: extract_physics_questions_improved
    text_blocks,   \* the section text, question block after question block
    parsed,        \* the questions the parser returned
    \* ---- cost_tracker.py
    recorded       \* the arguments of every record_call made on a tracker, in order

clientVars == <<cpc, attempt, cq, pending, ret, http_log, cost_tracker, tracker_at_call, sent,
               generated>>
mainVars == <<pc, idx, all_results, output, exit_code, failures>>
pdfVars == <<pages, bounds>>
validatorVars == <<question, validation>>
parserVars == <<text_blocks, parsed>>
trackerVars == <<recorded>>
inputVars == <<prog, questions, max_retries, launches, batch_size, pdfVars, validatorVars,
               parserVars, trackerVars>>
runVars == <<resume, dry_run, progress, i, batch_num, actual_batch_num, batch_results, runs,
             summary_printed>>
fileVars == <<progress_file, batch_files, failed_log>>
v2Vars == <<runVars, fileVars>>
vars == <<inputVars, clientVars, mainVars, v2Vars>>

----------------------------------------------------------------------------
(* Bounds of the model *)

MaxQuestions == 2       \* longest input list
MaxNumber == 2          \* largest question number in the input
MaxRetries == 2         \* largest max_retries the configuration is given

----------------------------------------------------------------------------
(* Values *)

None == "None"                          \* Python None, or a key that is missing
Letters == <<"A", "B", "C", "D">>       \* the option ids, in source order
LetterSet == {Letters[k] : k \in 1..4}
TruthLetters == {"A", "B"}              \* ground-truth letters the inputs use
ServiceLetters == {"A", "B"}            \* letters the service answers with

\* f"neet_2024_phy_{number:03d}"
DefaultId(number) ==
    "neet_2024_phy_" \o (IF number < 10 THEN "00" ELSE IF number < 100 THEN "0" ELSE "")
                     \o ToString(number)

\* A raw record of the extractor: the question number, whether
\* is_valid_physics_question accepts its text, and the answer of the answer key.
RawRecords(validities, answers) ==
    [number : 1..MaxNumber, valid : validities, correct_answer : answers]

\* The lists of at most MaxQuestions records of the set records.
QuestionLists(records) == UNION {[1..n -> records] : n \in 0..MaxQuestions}

\* The options array of a response: four options A..D of which those in
\* flagged have isCorrect = true.
MkOptions(flagged) ==
    [k \in 1..4 |-> [id |-> Letters[k], isCorrect |-> Letters[k] \in flagged]]

\* An option object that has no "id" key.
OptionWithoutId == [isCorrect |-> TRUE]

OptionLists ==
    {MkOptions(s) : s \in SUBSET ServiceLetters} \cup {<<>>, <<OptionWithoutId>>}

\* The JSON object parsed from a response of the service.
ParsedObjects ==
    [id : {None}, correctOption : ServiceLetters \cup {None}, options : OptionLists]

\* What one HTTP attempt can end in: a status >= 400, a transport error, a
\* body no JSON object can be extracted from, or a body holding a JSON object.
FailureKinds == {"http_error", "transport_error", "json_error"}

----------------------------------------------------------------------------
(* cost_tracker.py *)

NewCostTracker ==
    [total_calls |-> 0, input_tokens |-> 0, output_tokens |-> 0,
     successful_calls |-> 0, failed_calls |-> 0]

\* A record_call that counts the successful calls only.
RecordCallDropsFailures(t, input_tokens, output_tokens, success) ==
    [t EXCEPT !.total_calls = @ + 1,
              !.input_tokens = @ + input_tokens,
              !.output_tokens = @ + output_tokens,
              !.successful_calls = IF success THEN @ + 1 ELSE @]

\* CostTracker.record_call
RecordCall(t, input_tokens, output_tokens, success) ==
    [t EXCEPT !.total_calls = @ + 1,
              !.input_tokens = @ + input_tokens,
              !.output_tokens = @ + output_tokens,
              !.successful_calls = IF success THEN @ + 1 ELSE @,
              !.failed_calls = IF success THEN @ ELSE @ + 1]

MaxCalls == 3           \* most record_call operations on one tracker
MaxTokens == 2          \* largest token count of one call

\* One record_call on a tracker, with non-negative token counts.
CostTrackerRecordCall ==
    /\ prog = "cost_tracker" /\ pc = "record_call"
    /\ Len(recorded) < MaxCalls
    /\ \E input_tokens \in 0..MaxTokens, output_tokens \in 0..MaxTokens, success \in BOOLEAN :
        /\ cost_tracker' = RecordCall(cost_tracker, input_tokens, output_tokens, success)
        /\ recorded' = Append(recorded, <<input_tokens, output_tokens, success>>)
    /\ UNCHANGED <<prog, questions, max_retries, launches, batch_size, pdfVars, validatorVars,
                   parserVars>>
    /\ UNCHANGED <<cpc, attempt, cq, pending, ret, http_log, tracker_at_call, sent, generated>>
    /\ UNCHANGED <<mainVars, v2Vars>>

----------------------------------------------------------------------------
(* process_claude.py: call_claude_api *)

\* Whether the loop "for opt in options: opt['isCorrect'] = opt['id'] == g"
\* raises KeyError.
FixRaises(options) == \E k \in 1..Len(options) : "id" \notin DOMAIN options[k]

\* The options after that loop.
FixOptions(options, g) ==
    [k \in 1..Len(options) |-> [options[k] EXCEPT !.isCorrect = (options[k].id = g)]]

\* Lines 236-244: whether the answer check raises for the parsed object.
EnforceRaises(obj, g) == obj.correctOption # g /\ FixRaises(obj.options)

\* The result when lines 237-244 are left out.
ClaudeResultUnforced(obj, n) ==
    LET q == questions[n]
    IN [id |-> IF obj.id = None THEN DefaultId(q.number) ELSE obj.id,
        questionNumber |-> q.number,
        questionText |-> "text",
        correctOption |-> IF obj.correctOption = None THEN q.correct_answer
                          ELSE obj.correctOption,
        options |-> obj.options,
        source_index |-> n]

\* Lines 236-250: the result built from the parsed object obj for the record
\* q == questions[n]. source_index is not a field of the program's dict: it
\* names the raw record the result was generated from.
ClaudeResult(obj, n) ==
    LET q == questions[n]
        g == q.correct_answer
        forced == IF obj.correctOption # g
                  THEN [obj EXCEPT !.correctOption = g,
                                   !.options = FixOptions(obj.options, g)]
                  ELSE obj
    IN [id |-> IF forced.id = None THEN DefaultId(q.number) ELSE forced.id,
        questionNumber |-> q.number,
        questionText |-> "text",
        correctOption |-> forced.correctOption,
        options |-> forced.options,
        source_index |-> n]

\* The caller enters the client: range(1, max_retries + 1) may be empty.
EnterClient(n) ==
    /\ cq' = n
    /\ attempt' = 1
    /\ pending' = <<>>
    /\ http_log' = <<>>
    /\ tracker_at_call' = cost_tracker
    /\ ret' = <<>>
    /\ cpc' = IF max_retries >= 1 THEN "attempt" ELSE "returned"

\* The caller has taken the return value: the locals of the client are gone.
LeaveClient ==
    /\ cpc' = "idle" /\ attempt' = 0 /\ cq' = 0 /\ pending' = <<>> /\ ret' = <<>>
    /\ http_log' = <<>> /\ tracker_at_call' = NewCostTracker

\* question_validator.py, line 78: len(question_text) raises TypeError when
\* questionText is null.
ValidateRaises(sq) == sq.questionText = None

\* The outcome of the invocation that returned.
Outcome ==
    <<questions[cq].number,
      IF ret = <<>> THEN "failed" ELSE IF ValidateRaises(ret[1]) THEN "malformed" ELSE ret[1].id>>

\* An except block that sleeps error_delay after every failed attempt.
AfterFailureAlwaysPauses == "error_delay"

\* Where the client goes after a failed attempt: the except block sleeps
\* error_delay when another attempt is left (always, in the first script).
AfterFailure ==
    IF attempt < max_retries \/ prog = "v1" THEN "error_delay" ELSE "rate_limit_delay"

\* One attempt fails before a JSON object is parsed.
AttemptFails ==
    /\ cpc = "attempt"
    /\ \E kind \in FailureKinds :
        /\ http_log' = Append(http_log, <<"fail", None>>)
        /\ cost_tracker' =
             IF prog = "v1" THEN cost_tracker
             ELSE IF kind = "json_error"
                  THEN RecordCall(RecordCall(cost_tracker, 0, 0, TRUE), 0, 0, FALSE)
                  ELSE RecordCall(cost_tracker, 0, 0, FALSE)
    /\ sent' = sent \cup {cq}
    /\ cpc' = AfterFailure
    /\ UNCHANGED <<attempt, cq, pending, ret, tracker_at_call, generated>>
    /\ UNCHANGED <<inputVars, mainVars, v2Vars>>

\* One attempt of call_claude_api gets a JSON object.
ClaudeAttemptParses ==
    /\ cpc = "attempt"
    /\ prog = "claude"
    /\ \E obj \in ParsedObjects :
        LET q == questions[cq] IN
        /\ cost_tracker' =
             IF EnforceRaises(obj, q.correct_answer)
             THEN RecordCall(RecordCall(cost_tracker, 0, 0, TRUE), 0, 0, FALSE)
             ELSE RecordCall(cost_tracker, 0, 0, TRUE)
        /\ IF EnforceRaises(obj, q.correct_answer)
           THEN /\ http_log' = Append(http_log, <<"fail", obj.correctOption>>)
                /\ cpc' = AfterFailure
                /\ pending' = pending
           ELSE /\ http_log' = Append(http_log, <<"ok", obj.correctOption>>)
                /\ cpc' = "rate_limit_delay"
                /\ pending' = <<ClaudeResult(obj, cq)>>
    /\ sent' = sent \cup {cq}
    /\ UNCHANGED <<attempt, cq, ret, tracker_at_call, generated>>
    /\ UNCHANGED <<inputVars, mainVars, v2Vars>>

\* An except block whose pause is followed by the next attempt at once.
ErrorDelayThenAttempt ==
    /\ cpc = "error_delay"
    /\ cpc' = "attempt"
    /\ attempt' = attempt + 1
    /\ UNCHANGED <<cq, pending, ret, http_log, cost_tracker, tracker_at_call, sent, generated>>
    /\ UNCHANGED <<inputVars, mainVars, v2Vars>>

\* time.sleep(error_delay) in the except block.
ErrorDelay ==
    /\ cpc = "error_delay"
    /\ cpc' = "rate_limit_delay"
    /\ UNCHANGED <<attempt, cq, pending, ret, http_log, cost_tracker, tracker_at_call, sent, generated>>
    /\ UNCHANGED <<inputVars, mainVars, v2Vars>>

\* The finally block of a loop that runs over range(1, max_retries + 2).
RateLimitDelayPastLimit ==
    /\ cpc = "rate_limit_delay"
    /\ IF pending # <<>>
       THEN /\ cpc' = "returned"
            /\ ret' = pending
            /\ UNCHANGED attempt
       ELSE IF attempt <= max_retries
       THEN /\ cpc' = "attempt"
            /\ attempt' = attempt + 1
            /\ UNCHANGED ret
       ELSE /\ cpc' = "returned"
            /\ ret' = <<>>
            /\ UNCHANGED attempt
    /\ UNCHANGED <<cq, pending, http_log, cost_tracker, tracker_at_call, sent, generated>>
    /\ UNCHANGED <<inputVars, mainVars, v2Vars>>

\* time.sleep(rate_limit_delay) in the finally block, and what follows it: the
\* pending return, the next attempt, or the end of the loop.
RateLimitDelay ==
    /\ cpc = "rate_limit_delay"
    /\ IF pending # <<>>
       THEN /\ cpc' = "returned"
            /\ ret' = pending
            /\ UNCHANGED attempt
       ELSE IF attempt < max_retries
       THEN /\ cpc' = "attempt"
            /\ attempt' = attempt + 1
            /\ UNCHANGED ret
       ELSE /\ cpc' = "returned"
            /\ ret' = <<>>
            /\ UNCHANGED attempt
    /\ UNCHANGED <<cq, pending, http_log, cost_tracker, tracker_at_call, sent, generated>>
    /\ UNCHANGED <<inputVars, mainVars, v2Vars>>

----------------------------------------------------------------------------
(* process_claude.py: main *)

\* Lines 330-337: a record without an answer of the answer key is skipped.
ClaudeSkipNoAnswer ==
    /\ prog = "claude" /\ pc = "loop" /\ idx <= Len(questions)
    /\ questions[idx].correct_answer = None
    /\ idx' = idx + 1
    /\ UNCHANGED <<pc, all_results, output, exit_code, failures>>
    /\ UNCHANGED <<inputVars, clientVars, v2Vars>>

\* Lines 339-342: the client is called for the record.
ClaudeCall ==
    /\ prog = "claude" /\ pc = "loop" /\ idx <= Len(questions)
    /\ questions[idx].correct_answer # None
    /\ EnterClient(idx)
    /\ pc' = "call"
    /\ UNCHANGED <<idx, all_results, output, exit_code, failures, cost_tracker, sent, generated>>
    /\ UNCHANGED <<inputVars, v2Vars>>

\* Lines 344-352: a failed call is logged, a result is appended.
ClaudeAfterCall ==
    /\ prog = "claude" /\ pc = "call" /\ cpc = "returned"
    /\ all_results' = IF ret = <<>> THEN all_results ELSE Append(all_results, ret[1])
    /\ idx' = idx + 1
    /\ pc' = "loop"
    /\ LeaveClient
    /\ generated' = generated \cup {Outcome}
    /\ UNCHANGED <<cost_tracker, sent>>
    /\ UNCHANGED <<output, exit_code, failures>>
    /\ UNCHANGED <<inputVars, v2Vars>>

\* Lines 318-320: main returns 1 when no question was extracted.
ClaudeNoQuestions ==
    /\ prog = "claude" /\ pc = "loop" /\ questions = <<>>
    /\ pc' = "done"
    /\ exit_code' = <<1>>
    /\ UNCHANGED <<idx, all_results, output, failures>>
    /\ UNCHANGED <<inputVars, clientVars, v2Vars>>

\* Lines 354-381: the summary is printed and the output file written.
ClaudeSave ==
    /\ prog = "claude" /\ pc = "loop" /\ idx > Len(questions)
    /\ questions # <<>>
    /\ output' = <<all_results>>
    /\ pc' = "done"
    /\ exit_code' = <<0>>
    /\ UNCHANGED <<idx, all_results, failures>>
    /\ UNCHANGED <<inputVars, clientVars, v2Vars>>

----------------------------------------------------------------------------
(* process_questions_v2.py: call_perplexity_api *)

\* Ids the service puts in its answer; None when it gives none.
ResponseIds == {None, DefaultId(1)}

\* The JSON object parsed from a response to call_perplexity_api.
\* questionText is "text" for a string, None for a JSON null.
PerplexityObjects ==
    [id : {None}, correctOption : ServiceLetters \cup {None}, options : {MkOptions({})},
     questionText : {"text"}]
    \cup [id : ResponseIds \ {None}, correctOption : {"A"}, options : {MkOptions({})},
          questionText : {"text", None}]

\* Lines 216-224: the result built from the parsed object obj for questions[n].
PerplexityResult(obj, n) ==
    LET q == questions[n]
    IN [id |-> IF obj.id = None THEN DefaultId(q.number) ELSE obj.id,
        questionNumber |-> q.number,
        questionText |-> obj.questionText,
        correctOption |-> obj.correctOption,
        options |-> obj.options,
        source_index |-> n]

\* One attempt of call_perplexity_api gets a JSON object.
PerplexityAttemptParses ==
    /\ cpc = "attempt"
    /\ prog = "v2"
    /\ \E obj \in PerplexityObjects :
        /\ pending' = <<PerplexityResult(obj, cq)>>
        /\ http_log' = Append(http_log, <<"ok", obj.correctOption>>)
    /\ cost_tracker' = RecordCall(cost_tracker, 0, 0, TRUE)
    /\ cpc' = "rate_limit_delay"
    /\ sent' = sent \cup {cq}
    /\ UNCHANGED <<attempt, cq, ret, tracker_at_call, generated>>
    /\ UNCHANGED <<inputVars, mainVars, v2Vars>>

----------------------------------------------------------------------------
(* process_questions.py: call_perplexity and main *)

MAX_RETRIES == 5

\* Lines 312-317: the result built from the parsed dict obj for questions[n].
V1Result(obj, n) ==
    LET q == questions[n]
    IN [id |-> IF obj.id = None THEN DefaultId(q.number) ELSE obj.id,
        questionNumber |-> q.number,
        questionText |-> obj.questionText,
        correctOption |-> obj.correctOption,
        options |-> obj.options,
        source_index |-> n]

\* Lines 349-372: the record main writes for a question whose call raised.
V1Fallback(n) ==
    LET q == questions[n]
    IN [id |-> DefaultId(q.number),
        questionNumber |-> q.number,
        questionText |-> "text",
        correctOption |-> "A",
        options |-> <<>>,
        source_index |-> n]

\* One attempt of call_perplexity gets a JSON object that is a dict.
V1AttemptParses ==
    /\ cpc = "attempt"
    /\ prog = "v1"
    /\ \E obj \in PerplexityObjects :
        /\ pending' = <<V1Result(obj, cq)>>
        /\ http_log' = Append(http_log, <<"ok", obj.correctOption>>)
    /\ cpc' = "rate_limit_delay"
    /\ sent' = sent \cup {cq}
    /\ UNCHANGED <<attempt, cq, ret, cost_tracker, tracker_at_call, generated>>
    /\ UNCHANGED <<inputVars, mainVars, v2Vars>>

\* Lines 343-346: call_perplexity is called for the next question.
V1Call ==
    /\ prog = "v1" /\ pc = "loop" /\ idx <= Len(questions)
    /\ EnterClient(idx)
    /\ pc' = "call"
    /\ UNCHANGED <<idx, all_results, output, exit_code, failures, cost_tracker, sent, generated>>
    /\ UNCHANGED <<inputVars, v2Vars>>

\* Lines 347-372: the item is appended; when the call raised, the number goes
\* to failures and the fallback record is appended.
V1AfterCall ==
    /\ prog = "v1" /\ pc = "call" /\ cpc = "returned"
    /\ IF ret = <<>>
       THEN /\ failures' = Append(failures, questions[idx].number)
            /\ all_results' = Append(all_results, V1Fallback(idx))
       ELSE /\ failures' = failures
            /\ all_results' = Append(all_results, ret[1])
    /\ idx' = idx + 1
    /\ pc' = "loop"
    /\ LeaveClient
    /\ generated' = generated \cup {Outcome}
    /\ UNCHANGED <<cost_tracker, sent>>
    /\ UNCHANGED <<output, exit_code>>
    /\ UNCHANGED <<inputVars, v2Vars>>

\* Lines 374-403: the dataset is written.
V1Save ==
    /\ prog = "v1" /\ pc = "loop" /\ idx > Len(questions)
    /\ output' = <<all_results>>
    /\ pc' = "done"
    /\ exit_code' = <<0>>
    /\ UNCHANGED <<idx, all_results, failures>>
    /\ UNCHANGED <<inputVars, clientVars, v2Vars>>

----------------------------------------------------------------------------
(* pdf_extractor.py and pdf_extractor_v3.py: find_section_bounds *)

MaxPages == 3           \* most pages of a document

\* The section headers a page text can hold.
Headers == {"PHYSICS", "CHEMISTRY"}

\* Some pattern of SECTION_START_PATTERNS is found in the page text.
StartMatches(page_text) == "PHYSICS" \in page_text

\* Some pattern of SECTION_END_PATTERNS is found in the page text.
EndMatches(page_text) == "CHEMISTRY" \in page_text

\* The documents of at most MaxPages pages.
Documents == UNION {[1..n -> SUBSET Headers] : n \in 0..MaxPages}

\* The least number of a non-empty set of numbers.
Least(S) == CHOOSE x \in S : \A y \in S : x <= y

\* A start search in which the last match wins.
StartPageLastMatch(pp) ==
    LET hits == {k \in 0..(Len(pp) - 1) : StartMatches(pp[k + 1])}
    IN IF hits = {} THEN 0 ELSE CHOOSE x \in hits : \A y \in hits : y <= x

\* Lines 55-69: the index (0-based) of the first page a start pattern is
\* found in, 0 when there is none.
StartPage(pp) ==
    LET hits == {k \in 0..(Len(pp) - 1) : StartMatches(pp[k + 1])}
        start_page == IF hits = {} THEN -1 ELSE Least(hits)
    IN IF start_page < 0 THEN 0 ELSE start_page

\* An end search that begins at start_page itself.
EndPageFromStart(pp, start_page) ==
    LET hits == {k \in start_page..(Len(pp) - 1) : EndMatches(pp[k + 1])}
    IN IF hits = {} THEN Len(pp) ELSE Least(hits)

\* Lines 56 and 71-78: the index of the first page after start_page an end
\* pattern is found in, len(pages) when there is none.
EndPage(pp, start_page) ==
    LET hits == {k \in (start_page + 1)..(Len(pp) - 1) : EndMatches(pp[k + 1])}
    IN IF hits = {} THEN Len(pp) ELSE Least(hits)

\* find_section_bounds is applied to the pages.
FindSectionBounds ==
    /\ prog \in {"pdf_extractor", "pdf_extractor_v3"}
    /\ pc = "find_section_bounds"
    /\ bounds' = <<StartPage(pages), EndPage(pages, StartPage(pages))>>
    /\ pc' = "done"
    /\ UNCHANGED <<prog, questions, max_retries, launches, batch_size, pages, validatorVars,
                   parserVars, trackerVars>>
    /\ UNCHANGED <<clientVars, idx, all_results, output, exit_code, failures, v2Vars>>

----------------------------------------------------------------------------
(* pdf_extractor.py: extract_physics_questions_improved *)

MaxBlocks == 2          \* most question blocks of a section text

\* A question block of the text: "<number>.\n", the question text (its
\* length), the markers (1)..(4), each followed by an option text (its length,
\* 0 for none), and "Answer (<answer>)", answer = 0 for a block without one.
Blocks == [number : 1..MaxNumber, text_length : {10, 30}, option_length : {0, 5},
           answer : {0, 2, 3, 5}]

SectionTexts == UNION {[1..n -> Blocks] : n \in 0..MaxBlocks}

\* The pieces of the text the pattern tells apart: a question number with its
\* newline ("num"), an option marker ("opt"), an answer marker ("ans"), and
\* other text ("text", with its length).
Piece(kind, value) == [kind |-> kind, value |-> value]

BlockPieces(b) ==
    <<Piece("num", b.number), Piece("text", b.text_length)>>
    \o <<Piece("opt", 1)>> \o (IF b.option_length > 0 THEN <<Piece("text", b.option_length)>> ELSE <<>>)
    \o <<Piece("opt", 2)>> \o (IF b.option_length > 0 THEN <<Piece("text", b.option_length)>> ELSE <<>>)
    \o <<Piece("opt", 3)>> \o (IF b.option_length > 0 THEN <<Piece("text", b.option_length)>> ELSE <<>>)
    \o <<Piece("opt", 4)>> \o (IF b.option_length > 0 THEN <<Piece("text", b.option_length)>> ELSE <<>>)
    \o (IF b.answer > 0 THEN <<Piece("ans", b.answer)>> ELSE <<>>)

\* physics_text: the blocks one after the other.
RECURSIVE PhysicsText(_)
PhysicsText(blocks) ==
    IF blocks = <<>> THEN <<>> ELSE BlockPieces(Head(blocks)) \o PhysicsText(Tail(blocks))

\* The first piece after position p that is of the kind and, unless value is
\* 0, has the value; -1 when there is none or p is -1.
FirstAfter(pieces, p, kind, value) ==
    LET hits == {k \in (p + 1)..Len(pieces) :
                    pieces[k].kind = kind /\ (value = 0 \/ pieces[k].value = value)}
    IN IF p < 0 \/ hits = {} THEN -1 ELSE Least(hits)

\* len(' '.join(x.split())) of the text between the pieces at a and b.
RECURSIVE TextBetween(_, _, _)
TextBetween(pieces, a, b) ==
    IF a + 1 >= b THEN 0
    ELSE (IF pieces[a + 1].kind = "text" THEN pieces[a + 1].value ELSE 3)
         + TextBetween(pieces, a + 1, b)

\* num_to_letter.get(answer_idx)
NumToLetter(answer_idx) == IF answer_idx \in 1..4 THEN Letters[answer_idx] ELSE None

\* Lines 173-214: the records appended for one match of the pattern, whose
\* groups lie between the pieces at num, o1..o4 and ans.
StrictRecords(pieces, num, o1, o2, o3, o4, ans) ==
    IF TextBetween(pieces, num, o1) < 20 THEN <<>>
    ELSE IF NumToLetter(pieces[ans].value) = None THEN <<>>
    ELSE <<[number |-> pieces[num].value,
            text_length |-> TextBetween(pieces, num, o1),
            options |-> <<TextBetween(pieces, o1, o2), TextBetween(pieces, o2, o3),
                          TextBetween(pieces, o3, o4), TextBetween(pieces, o4, ans)>>,
            correct_index |-> pieces[ans].value,
            correct_answer |-> NumToLetter(pieces[ans].value)]>>

\* Lines 157-214: pattern.findall, leftmost and non-overlapping, every group
\* as short as possible, and the loop over its matches, from position `from`.
RECURSIVE StrictParse(_, _)
StrictParse(pieces, from) ==
    LET num == FirstAfter(pieces, from, "num", 0)
        o1 == FirstAfter(pieces, num, "opt", 1)
        o2 == FirstAfter(pieces, o1, "opt", 2)
        o3 == FirstAfter(pieces, o2, "opt", 3)
        o4 == FirstAfter(pieces, o3, "opt", 4)
        ans == FirstAfter(pieces, o4, "ans", 0)
    IN IF num < 0 THEN <<>>
       ELSE IF ans < 0 THEN StrictParse(pieces, num)
       ELSE StrictRecords(pieces, num, o1, o2, o3, o4, ans) \o StrictParse(pieces, ans)

\* extract_physics_questions_improved is applied to the section text.
ExtractStrict ==
    /\ prog = "pdf_extractor" /\ pc = "extract"
    /\ parsed' = StrictParse(PhysicsText(text_blocks), 0)
    /\ pc' = "done"
    /\ UNCHANGED <<prog, questions, max_retries, launches, batch_size, pdfVars, validatorVars,
                   text_blocks, trackerVars>>
    /\ UNCHANGED <<clientVars, idx, all_results, output, exit_code, failures, v2Vars>>

----------------------------------------------------------------------------
(* question_validator.py: validate_question_completeness, for the fields a
   result of the model has *)

CompletenessErrors(sq) ==
    IF sq.correctOption = None
    THEN <<"Missing required field: correctOption">>
    ELSE (IF Len(sq.options) # 4
          THEN <<"Expected 4 options">>
          ELSE IF {sq.options[k].id : k \in 1..4} # LetterSet
               THEN <<"Invalid option IDs">>
               ELSE <<>>)
         \o (IF sq.correctOption \notin LetterSet THEN <<"Invalid correctOption">> ELSE <<>>)

----------------------------------------------------------------------------
(* question_validator.py: validate_question_completeness, all its rules *)

MaxCount == 2           \* most concept tags and most solution steps of a question

\* The questionText of a question: its length and whether a pattern of
\* PLACEHOLDER_PATTERNS is found in it.
Texts == [length : {20, 60}, placeholder : BOOLEAN]

\* An options array whose ids are not A..D.
OptionsWithWrongIds == [k \in 1..4 |-> [id |-> "A", isCorrect |-> FALSE]]

\* The classification of a question: chapter and topic ("" when the key is
\* missing) and the number of conceptTags.
Classifications ==
    [chapter : {"", "unknown", "Optics"}, topic : {"", "Waves"}, conceptTags : 0..MaxCount]

\* The structured questions the validator is given. A key that is missing has
\* the value None (id, correctOption) or <<>> (questionText, options and
\* classification, which are <<value>> when present); stepByStep is the
\* number of steps, 0 when the key is missing.
StructuredQuestions ==
    [id : {None, DefaultId(1)},
     questionText : {<<>>} \cup {<<t>> : t \in Texts},
     options : {<<>>, <<<<>>>>, <<OptionsWithWrongIds>>, <<MkOptions({})>>},
     correctOption : {None, "A", "E"},
     classification : {<<>>} \cup {<<c>> : c \in Classifications},
     stepByStep : 0..MaxCount]

\* Lines 65-72.
MissingFields(q) ==
    (IF q.id = None THEN <<"Missing required field: id">> ELSE <<>>)
    \o (IF q.questionText = <<>> THEN <<"Missing required field: questionText">> ELSE <<>>)
    \o (IF q.options = <<>> THEN <<"Missing required field: options">> ELSE <<>>)
    \o (IF q.correctOption = None THEN <<"Missing required field: correctOption">> ELSE <<>>)
    \o (IF q.classification = <<>> THEN <<"Missing required field: classification">> ELSE <<>>)

\* Lines 74-132, for a question that has every required field.
RuleErrors(q) ==
    LET question_text == q.questionText[1]
        options == q.options[1]
        classification == q.classification[1]
    IN (IF question_text.length < 50 THEN <<"Question text too short">> ELSE <<>>)
       \o (IF question_text.placeholder THEN <<"Found placeholder pattern">> ELSE <<>>)
       \o (IF Len(options) # 4 THEN <<"Expected 4 options">>
           ELSE IF {options[k].id : k \in 1..4} # LetterSet THEN <<"Invalid option IDs">>
           ELSE <<>>)
       \o (IF q.correctOption \notin LetterSet THEN <<"Invalid correctOption">> ELSE <<>>)
       \o (IF classification.chapter \in {"", "unknown"}
           THEN <<"Chapter is missing or placeholder">> ELSE <<>>)
       \o (IF classification.topic \in {"", "unknown"}
           THEN <<"Topic is missing or placeholder">> ELSE <<>>)
       \o (IF classification.conceptTags < 2 THEN <<"Insufficient concept tags">> ELSE <<>>)
       \o (IF q.stepByStep = 0 THEN <<"Missing stepByStep solution">>
           ELSE IF q.stepByStep < 2 THEN <<"Solution too brief">>
           ELSE <<>>)

\* validate_question_completeness: (is_valid, errors).
ValidateQuestionCompleteness(q) ==
    LET errors == IF MissingFields(q) # <<>> THEN MissingFields(q) ELSE RuleErrors(q)
    IN <<errors = <<>>, errors>>

\* validate_question_completeness is applied to the question.
Validate ==
    /\ prog = "question_validator" /\ pc = "validate"
    /\ validation' = ValidateQuestionCompleteness(question[1])
    /\ pc' = "done"
    /\ UNCHANGED <<prog, questions, max_retries, launches, batch_size, pdfVars, question,
                   parserVars, trackerVars>>
    /\ UNCHANGED <<clientVars, idx, all_results, output, exit_code, failures, v2Vars>>

----------------------------------------------------------------------------
(* process_questions_v2.py: the files *)

MaxBatchSize == 2       \* largest --batch-size
MaxRuns == 2            \* runs of main over one output directory

ZeroProgress ==
    [last_completed_batch |-> -1, next_question_index |-> 0, processed_question_ids |-> <<>>]

\* json.dump of the progress dict, and json.load of what was dumped.
DumpProgress(p) ==
    <<p.last_completed_batch, p.next_question_index, p.processed_question_ids>>

LoadProgressData(data) ==
    [last_completed_batch |-> data[1], next_question_index |-> data[2],
     processed_question_ids |-> data[3]]

\* A file that does not exist, one that was opened for writing and not yet
\* written in full, and one that holds data.
NoFile == [state |-> "absent", data |-> <<>>]
PartialFile == [state |-> "partial", data |-> <<>>]
FileWith(data) == [state |-> "ok", data |-> data]

\* A load_progress that never reads the file.
LoadProgressIgnoresFile(file) == ZeroProgress

\* load_progress
LoadProgress(file) ==
    IF file.state = "ok" THEN LoadProgressData(file.data) ELSE ZeroProgress

\* json.load raises on a file that is not a complete JSON document.
LoadRaises(file) == file.state = "partial"

\* save_batch and save_progress: open(path, 'w') truncates the file, json.dump
\* then writes it.
OpenForWriting(file) == PartialFile

\* The batch store numbered b, NoFile when there is none.
BatchFile(b) == IF b \in DOMAIN batch_files THEN batch_files[b] ELSE NoFile

\* A log that is opened with mode 'w'.
LogFailedQuestionOverwrites(log, question_num, reason) == <<<<question_num, reason>>>>

\* log_failed_question
LogFailedQuestion(log, question_num, reason) == Append(log, <<question_num, reason>>)

InSeq(x, seq) == \E k \in 1..Len(seq) : seq[k] = x

Min(a, b) == IF a <= b THEN a ELSE b

----------------------------------------------------------------------------
(* process_questions_v2.py: merge_batches *)

\* The decimal digits of a number.
RECURSIVE Digits(_)
Digits(n) == IF n < 10 THEN <<n>> ELSE Append(Digits(n \div 10), n % 10)

\* save_batch, line 261: f"{batch_num:04d}", the digits of the file name.
Pad4(n) ==
    LET d == Digits(n)
    IN IF Len(d) >= 4 THEN d ELSE [k \in 1..(4 - Len(d)) |-> 0] \o d

\* Whether batch_<a>.json sorts before batch_<b>.json: the names are compared
\* as strings, and the "." after the digits sorts before every digit.
NameBefore(a, b) ==
    LET x == Pad4(a)
        y == Pad4(b)
    IN \E k \in 1..(Len(x) + 1) :
          /\ \A j \in 1..(k - 1) : j <= Len(y) /\ x[j] = y[j]
          /\ \/ k = Len(x) + 1 /\ Len(y) > Len(x)
             \/ k <= Len(x) /\ k <= Len(y) /\ x[k] < y[k]

\* sorted(batches_dir.glob("batch_*.json")): the batch numbers in the order of
\* the file names.
RECURSIVE SortedNumbers(_)
SortedNumbers(S) ==
    IF S = {} THEN <<>>
    ELSE LET m == CHOOSE x \in S : \A y \in S \ {x} : NameBefore(x, y)
         IN <<m>> \o SortedNumbers(S \ {m})

\* Lines 396-400 for the questions of one batch file.
RECURSIVE MergeInto(_, _)
MergeInto(all_questions, batch_questions) ==
    IF batch_questions = <<>> THEN all_questions
    ELSE LET q == Head(batch_questions)
             seen_ids == {all_questions[k].id : k \in 1..Len(all_questions)}
             keep == q.id # None /\ q.id # "" /\ q.id \notin seen_ids
         IN MergeInto(IF keep THEN Append(all_questions, q) ELSE all_questions,
                      Tail(batch_questions))

\* Lines 388-400 for the batch files `numbers`, in that order.
RECURSIVE MergeFiles(_, _)
MergeFiles(all_questions, numbers) ==
    IF numbers = <<>> THEN all_questions
    ELSE MergeFiles(MergeInto(all_questions, batch_files[Head(numbers)].data), Tail(numbers))

MergeBatches == MergeFiles(<<>>, SortedNumbers(DOMAIN batch_files))

MergeRaises == \E b \in DOMAIN batch_files : LoadRaises(batch_files[b])

----------------------------------------------------------------------------
(* process_questions_v2.py: main and process_questions_in_batches *)

\* The locals of a run that is over.
ForgetRun ==
    /\ progress' = ZeroProgress /\ i' = 0 /\ batch_num' = 0 /\ actual_batch_num' = 0
    /\ batch_results' = <<>> /\ idx' = 0 /\ all_results' = <<>>
    /\ cost_tracker' = NewCostTracker
    /\ LeaveClient

\* main returns code.
Exit(code) == pc' = "idle" /\ exit_code' = <<code>> /\ ForgetRun

\* One past the last index (1-based) of the current batch: questions[i:i + batch_size].
BatchEnd == Min(i + batch_size, Len(questions))

\* main is started: lines 516-518 (no questions), then lines 297-308.
V2Start ==
    /\ prog = "v2" /\ pc = "idle" /\ runs < launches
    /\ runs' = runs + 1
    /\ summary_printed' = FALSE
    /\ \E r \in BOOLEAN, d \in BOOLEAN :
        /\ resume' = r
        /\ dry_run' = d
        /\ IF questions = <<>> \/ (r /\ LoadRaises(progress_file))
           THEN Exit(1) /\ UNCHANGED sent
           ELSE /\ progress' = IF r THEN LoadProgress(progress_file) ELSE ZeroProgress
                /\ i' = progress'.next_question_index
                /\ batch_num' = 0
                /\ pc' = "batch_head"
                /\ exit_code' = <<>>
                /\ cost_tracker' = NewCostTracker
                /\ all_results' = <<>>
                /\ sent' = {}
                /\ UNCHANGED <<actual_batch_num, batch_results, idx, cpc, attempt, cq,
                               pending, ret, http_log, tracker_at_call>>
    /\ UNCHANGED <<inputVars, fileVars, output, failures, generated>>

\* The start of a batch that is numbered by enumerate() alone.
V2BatchHeadRestartsNumbering ==
    /\ prog = "v2" /\ pc = "batch_head" /\ i < Len(questions)
    /\ actual_batch_num' = batch_num
    /\ batch_results' = <<>>
    /\ idx' = i + 1
    /\ pc' = "record"
    /\ UNCHANGED <<resume, dry_run, summary_printed, progress, i, batch_num, runs>>
    /\ UNCHANGED <<inputVars, clientVars, fileVars, all_results, output, exit_code, failures>>

\* Lines 311-319: the next batch is started.
V2BatchHead ==
    /\ prog = "v2" /\ pc = "batch_head" /\ i < Len(questions)
    /\ actual_batch_num' = progress.last_completed_batch + 1 + batch_num
    /\ batch_results' = <<>>
    /\ idx' = i + 1
    /\ pc' = "record"
    /\ UNCHANGED <<resume, dry_run, summary_printed, progress, i, batch_num, runs>>
    /\ UNCHANGED <<inputVars, clientVars, fileVars, all_results, output, exit_code, failures>>

\* A membership test that finds no number.
AlreadyProcessedNever(n) == FALSE

\* Line 325: q_num in progress['processed_question_ids'].
AlreadyProcessed(n) == InSeq(questions[n].number, progress.processed_question_ids)

\* Lines 325-328: a record whose number is in processed_question_ids is skipped.
V2SkipProcessed ==
    /\ prog = "v2" /\ pc = "record" /\ idx <= BatchEnd
    /\ AlreadyProcessed(idx)
    /\ idx' = idx + 1
    /\ UNCHANGED <<pc, all_results, output, exit_code, failures>>
    /\ UNCHANGED <<inputVars, clientVars, v2Vars>>

\* Lines 330-334: a record is_valid_physics_question rejects is logged and skipped.
V2SkipInvalid ==
    /\ prog = "v2" /\ pc = "record" /\ idx <= BatchEnd
    /\ ~AlreadyProcessed(idx)
    /\ ~questions[idx].valid
    /\ failed_log' = LogFailedQuestion(failed_log, questions[idx].number, "Invalid physics content")
    /\ idx' = idx + 1
    /\ UNCHANGED <<pc, all_results, output, exit_code, failures>>
    /\ UNCHANGED <<inputVars, clientVars, runVars, progress_file, batch_files>>

\* A dry run whose loop does not move on to the next record.
V2SkipDryRunStays ==
    /\ prog = "v2" /\ pc = "record" /\ idx <= BatchEnd
    /\ ~AlreadyProcessed(idx)
    /\ questions[idx].valid
    /\ dry_run
    /\ idx' = idx
    /\ UNCHANGED <<pc, all_results, output, exit_code, failures>>
    /\ UNCHANGED <<inputVars, clientVars, v2Vars>>

\* Lines 336-338: a dry run skips the call.
V2SkipDryRun ==
    /\ prog = "v2" /\ pc = "record" /\ idx <= BatchEnd
    /\ ~AlreadyProcessed(idx)
    /\ questions[idx].valid
    /\ dry_run
    /\ idx' = idx + 1
    /\ UNCHANGED <<pc, all_results, output, exit_code, failures>>
    /\ UNCHANGED <<inputVars, clientVars, v2Vars>>

\* Lines 340-341: the client is called for the record.
V2Call ==
    /\ prog = "v2" /\ pc = "record" /\ idx <= BatchEnd
    /\ ~AlreadyProcessed(idx)
    /\ questions[idx].valid
    /\ ~dry_run
    /\ EnterClient(idx)
    /\ pc' = "call"
    /\ UNCHANGED <<idx, all_results, output, exit_code, failures, cost_tracker, sent, generated>>
    /\ UNCHANGED <<inputVars, v2Vars>>

\* Lines 349 and 556-558: validate_question_completeness raises, nothing
\* catches it before main, which returns 1.
V2ValidateRaises ==
    /\ prog = "v2" /\ pc = "call" /\ cpc = "returned"
    /\ ret # <<>> /\ ValidateRaises(ret[1])
    /\ Exit(1)
    /\ generated' = generated \cup {Outcome}
    /\ UNCHANGED <<resume, dry_run, summary_printed, runs, sent, output, failures>>
    /\ UNCHANGED <<inputVars, fileVars>>

\* An orchestrator that lets the failure of a record end the run.
V2AfterCallAborts ==
    /\ prog = "v2" /\ pc = "call" /\ cpc = "returned"
    /\ ret # <<>> => ~ValidateRaises(ret[1])
    /\ Exit(1)
    /\ generated' = generated \cup {Outcome}
    /\ UNCHANGED <<resume, dry_run, summary_printed, runs, sent, output, failures>>
    /\ UNCHANGED <<inputVars, fileVars>>

\* Lines 343-360: a failed call is logged; a result is validated, logged when
\* incomplete, and kept.
V2AfterCall ==
    /\ prog = "v2" /\ pc = "call" /\ cpc = "returned"
    /\ ret # <<>> => ~ValidateRaises(ret[1])
    /\ LET q == questions[idx] IN
       IF ret = <<>>
       THEN /\ failed_log' = LogFailedQuestion(failed_log, q.number, "API call failed")
            /\ UNCHANGED <<batch_results, progress, all_results>>
       ELSE LET structured == ret[1]
                errors == CompletenessErrors(structured)
            IN /\ failed_log' = IF errors # <<>>
                                THEN LogFailedQuestion(failed_log, q.number,
                                                       "Validation: " \o errors[1])
                                ELSE failed_log
               /\ batch_results' = Append(batch_results, structured)
               /\ progress' = [progress EXCEPT !.processed_question_ids = Append(@, q.number)]
               /\ all_results' = Append(all_results, structured)
    /\ idx' = idx + 1
    /\ pc' = "record"
    /\ LeaveClient
    /\ generated' = generated \cup {Outcome}
    /\ UNCHANGED <<cost_tracker, sent>>
    /\ UNCHANGED <<resume, dry_run, summary_printed, i, batch_num, actual_batch_num, runs>>
    /\ UNCHANGED <<inputVars, progress_file, batch_files, output, exit_code, failures>>

\* Whether lines 363-364 save the batch.
SavesBatch == batch_results # <<>> /\ ~dry_run

\* save_batch, line 262: the batch file is opened for writing.
V2SaveBatchOpen ==
    /\ prog = "v2" /\ pc = "record" /\ idx > BatchEnd
    /\ SavesBatch
    /\ batch_files' = (actual_batch_num :> OpenForWriting(BatchFile(actual_batch_num)))
                      @@ batch_files
    /\ pc' = "save_batch"
    /\ UNCHANGED <<idx, all_results, output, exit_code, failures>>
    /\ UNCHANGED <<inputVars, clientVars, runVars, progress_file, failed_log>>

\* save_batch, line 263: the results are written.
V2SaveBatchWrite ==
    /\ prog = "v2" /\ pc = "save_batch"
    /\ batch_files' = (actual_batch_num :> FileWith(batch_results)) @@ batch_files
    /\ pc' = "update_progress"
    /\ UNCHANGED <<idx, all_results, output, exit_code, failures>>
    /\ UNCHANGED <<inputVars, clientVars, runVars, progress_file, failed_log>>

\* A failure of save_batch that the loop swallows: it goes on to the progress
\* update.
V2SaveBatchFailureIgnored ==
    /\ prog = "v2"
    /\ \/ pc = "record" /\ idx > BatchEnd /\ SavesBatch
       \/ pc = "save_batch"
    /\ pc' = "update_progress"
    /\ UNCHANGED <<idx, all_results, output, exit_code, failures>>
    /\ UNCHANGED <<inputVars, clientVars, runVars, fileVars>>

\* save_batch raises (lines 262-263: open fails and the directory is as it
\* was, or json.dump fails and the file is left incomplete); nothing catches
\* the exception before main (lines 556-558), which returns 1.
V2SaveBatchRaises ==
    /\ prog = "v2"
    /\ \/ pc = "record" /\ idx > BatchEnd /\ SavesBatch
       \/ pc = "save_batch"
    /\ Exit(1)
    /\ UNCHANGED <<resume, dry_run, summary_printed, runs, sent, generated, output, failures>>
    /\ UNCHANGED <<inputVars, fileVars>>

\* A commit that leaves next_question_index at the start of the batch.
V2SaveProgressOpenKeepsIndex ==
    /\ prog = "v2"
    /\ pc = "update_progress" \/ (pc = "record" /\ idx > BatchEnd /\ ~SavesBatch)
    /\ progress' = [progress EXCEPT
                      !.last_completed_batch = actual_batch_num,
                      !.next_question_index = i]
    /\ progress_file' = OpenForWriting(progress_file)
    /\ pc' = "save_progress"
    /\ UNCHANGED <<idx, all_results, output, exit_code, failures>>
    /\ UNCHANGED <<resume, dry_run, summary_printed, i, batch_num, actual_batch_num, batch_results, runs>>
    /\ UNCHANGED <<inputVars, clientVars, batch_files, failed_log>>

\* Lines 368-369, and save_progress, line 255: the progress dict is updated and
\* the progress file opened for writing.
V2SaveProgressOpen ==
    /\ prog = "v2"
    /\ pc = "update_progress" \/ (pc = "record" /\ idx > BatchEnd /\ ~SavesBatch)
    /\ progress' = [progress EXCEPT
                      !.last_completed_batch = actual_batch_num,
                      !.next_question_index = Min(i + batch_size, Len(questions))]
    /\ progress_file' = OpenForWriting(progress_file)
    /\ pc' = "save_progress"
    /\ UNCHANGED <<idx, all_results, output, exit_code, failures>>
    /\ UNCHANGED <<resume, dry_run, summary_printed, i, batch_num, actual_batch_num, batch_results, runs>>
    /\ UNCHANGED <<inputVars, clientVars, batch_files, failed_log>>

\* save_progress, line 256: the progress dict is written.
V2SaveProgressWrite ==
    /\ prog = "v2" /\ pc = "save_progress"
    /\ progress_file' = FileWith(DumpProgress(progress))
    /\ pc' = "committed"
    /\ UNCHANGED <<idx, all_results, output, exit_code, failures>>
    /\ UNCHANGED <<inputVars, clientVars, runVars, batch_files, failed_log>>

\* Line 311: the loop goes to the next batch.
V2NextBatch ==
    /\ prog = "v2" /\ pc = "committed"
    /\ i' = i + batch_size
    /\ batch_num' = batch_num + 1
    /\ pc' = "batch_head"
    /\ UNCHANGED <<resume, dry_run, summary_printed, progress, actual_batch_num, batch_results, runs>>
    /\ UNCHANGED <<inputVars, clientVars, fileVars, idx, all_results, output, exit_code, failures>>

\* Lines 375-381 and 536-550: the loop is over, the summary is printed; a dry
\* run returns 0, another run goes on to merge the batches.
V2Return ==
    /\ prog = "v2" /\ pc = "batch_head" /\ i >= Len(questions)
    /\ IF dry_run
       THEN Exit(0)
       ELSE /\ pc' = "merge"
            /\ UNCHANGED <<exit_code, progress, i, batch_num, actual_batch_num, batch_results,
                           idx, all_results, cpc, attempt, cq, pending, ret, http_log,
                           cost_tracker, tracker_at_call>>
    /\ summary_printed' = TRUE
    /\ UNCHANGED <<resume, dry_run, runs, sent, generated, output, failures>>
    /\ UNCHANGED <<inputVars, fileVars>>

\* Draft7Validator(NEET_DB_SCHEMA).validate(dataset) passes, for the fields a
\* result of the model has.
SchemaValid(dataset) ==
    \A k \in 1..Len(dataset) :
       LET q == dataset[k] IN
       /\ q.id # None
       /\ q.questionText # None
       /\ q.correctOption \in LetterSet
       /\ Len(q.options) = 4
       /\ \A n \in 1..Len(q.options) : q.options[n].id \in LetterSet

\* A merge that writes no dataset the schema rejects.
V2MergeRejectsInvalid ==
    /\ prog = "v2" /\ pc = "merge"
    /\ IF MergeRaises \/ ~SchemaValid(MergeBatches)
       THEN Exit(1) /\ UNCHANGED output
       ELSE Exit(0) /\ output' = <<MergeBatches>>
    /\ UNCHANGED <<resume, dry_run, summary_printed, runs, sent, generated, failures>>
    /\ UNCHANGED <<inputVars, fileVars>>

\* merge_batches, and main's return: 0, or 1 when a batch file cannot be
\* loaded. Lines 415-424: a dataset the schema rejects is written as well, the
\* exception of the validator is caught and logged.
V2Merge ==
    /\ prog = "v2" /\ pc = "merge"
    /\ IF MergeRaises
       THEN Exit(1) /\ UNCHANGED output
       ELSE Exit(0) /\ output' = <<MergeBatches>>
    /\ UNCHANGED <<resume, dry_run, summary_printed, runs, sent, generated, failures>>
    /\ UNCHANGED <<inputVars, fileVars>>

\* The run stops where it is: a KeyboardInterrupt (main returns 130), or the
\* process is killed (main returns nothing).
V2Stop ==
    /\ prog = "v2" /\ pc # "idle"
    /\ \E killed \in BOOLEAN :
        /\ pc' = "idle"
        /\ exit_code' = IF killed THEN <<>> ELSE <<130>>
        /\ ForgetRun
    /\ UNCHANGED <<resume, dry_run, summary_printed, runs, sent, generated, output, failures>>
    /\ UNCHANGED <<inputVars, fileVars>>

----------------------------------------------------------------------------
(* Specification *)

\* The scripts that process questions do not look for the section.
InitNoExtraction == pages = <<>> /\ bounds = <<>>

\* No text is parsed.
InitNoParse == text_blocks = <<>> /\ parsed = <<>>

\* No CostTracker is exercised on its own.
InitNoAccounting == recorded = <<>>

\* No structured question is validated on its own.
InitNoValidation == question = <<>> /\ validation = <<>>

InitClient ==
    /\ cpc = "idle" /\ attempt = 0 /\ cq = 0 /\ pending = <<>> /\ ret = <<>>
    /\ http_log = <<>> /\ cost_tracker = NewCostTracker
    /\ tracker_at_call = NewCostTracker /\ sent = {} /\ generated = {}

\* No run of the batch pipeline was started, and its directory is empty.
InitNoRun ==
    /\ resume = TRUE /\ dry_run = FALSE /\ progress = ZeroProgress
    /\ i = 0 /\ batch_num = 0 /\ actual_batch_num = 0 /\ batch_results = <<>> /\ runs = 0
    /\ summary_printed = FALSE
    /\ progress_file = NoFile /\ batch_files = <<>> /\ failed_log = <<>>

\* process_claude.py does not call is_valid_physics_question.
InitClaude ==
    /\ prog = "claude"
    /\ questions \in QuestionLists(RawRecords({TRUE}, TruthLetters \cup {None}))
    /\ max_retries \in 0..MaxRetries
    /\ launches = 1
    /\ InitClient
    /\ InitNoAccounting
    /\ InitNoExtraction
    /\ InitNoValidation
    /\ InitNoParse
    /\ pc = "loop" /\ idx = 1 /\ all_results = <<>> /\ output = <<>> /\ exit_code = <<>>
    /\ failures = <<>>
    /\ batch_size = 1
    /\ InitNoRun

\* process_questions_v2.py is launched up to `launches` times over a directory
\* that is empty at first.
InitV2(answers, retries, times) ==
    /\ prog = "v2"
    /\ questions \in QuestionLists(RawRecords(BOOLEAN, answers))
    /\ max_retries \in retries
    /\ launches \in times
    /\ batch_size \in 1..MaxBatchSize
    /\ InitClient
    /\ InitNoAccounting
    /\ InitNoExtraction
    /\ InitNoValidation
    /\ InitNoParse
    /\ pc = "idle" /\ idx = 0 /\ all_results = <<>> /\ output = <<>> /\ exit_code = <<>>
    /\ failures = <<>>
    /\ InitNoRun

\* process_questions.py: extract_questions gives a number and a text, and no
\* answer of the answer key.
InitV1 ==
    /\ prog = "v1"
    /\ questions \in QuestionLists(RawRecords({TRUE}, {None}))
    /\ max_retries = MAX_RETRIES
    /\ launches = 1
    /\ InitClient
    /\ InitNoAccounting
    /\ InitNoExtraction
    /\ InitNoValidation
    /\ InitNoParse
    /\ pc = "loop" /\ idx = 1 /\ all_results = <<>> /\ output = <<>> /\ exit_code = <<>>
    /\ failures = <<>>
    /\ batch_size = 1
    /\ InitNoRun

ClientNext ==
    AttemptFails \/ ClaudeAttemptParses \/ PerplexityAttemptParses \/ ErrorDelay \/ RateLimitDelay

V2Next ==
    \/ V2Start \/ V2BatchHead \/ V2SkipProcessed \/ V2SkipInvalid \/ V2SkipDryRun
    \/ V2Call \/ V2ValidateRaises \/ V2AfterCall \/ V2SaveBatchOpen \/ V2SaveBatchWrite
    \/ V2SaveBatchRaises \/ V2SaveProgressOpen
    \/ V2SaveProgressWrite \/ V2NextBatch \/ V2Return \/ V2Merge \/ V2Stop

ClaudeNext ==
    ClaudeNoQuestions \/ ClaudeSkipNoAnswer \/ ClaudeCall \/ ClaudeAfterCall \/ ClaudeSave

\* The batch pipeline, launched up to MaxRuns times, stopped at any point.
Init == InitV2({"A"}, 1..MaxRetries, {MaxRuns})

Next == AttemptFails \/ PerplexityAttemptParses \/ ErrorDelay \/ RateLimitDelay \/ V2Next

Spec == Init /\ [][Next]_vars

\* Both generation clients and their callers, each launched once.
InitClient2 == InitClaude \/ InitV2({"A", None}, 0..MaxRetries, {1})

NextClient == ClientNext \/ ClaudeNext \/ V2Next

SpecClient == InitClient2 /\ [][NextClient]_vars

\* The batch pipeline run with resume enabled, interrupted only between the
\* commit of a batch and the start of the next one, and resumed.
ResumedStart == V2Start /\ resume' /\ ~dry_run'

InterruptAfterCommit == V2Stop /\ pc = "committed"

NextResume ==
    \/ AttemptFails \/ PerplexityAttemptParses \/ ErrorDelay \/ RateLimitDelay
    \/ ResumedStart \/ V2BatchHead \/ V2SkipProcessed \/ V2SkipInvalid
    \/ V2Call \/ V2ValidateRaises \/ V2AfterCall \/ V2SaveBatchOpen \/ V2SaveBatchWrite
    \/ V2SaveProgressOpen \/ V2SaveProgressWrite \/ V2NextBatch \/ V2Return \/ V2Merge
    \/ InterruptAfterCommit

SpecResume == Init /\ [][NextResume]_vars

\* One run of the batch pipeline that nothing interrupts: every call of the
\* client returns, and the interpreter goes on to the next statement.
InitLive == InitV2({"A"}, 1..MaxRetries, {1})

NextLive ==
    \/ AttemptFails \/ PerplexityAttemptParses \/ ErrorDelay \/ RateLimitDelay
    \/ V2Start \/ V2BatchHead \/ V2SkipProcessed \/ V2SkipInvalid \/ V2SkipDryRun
    \/ V2Call \/ V2ValidateRaises \/ V2AfterCall \/ V2SaveBatchOpen \/ V2SaveBatchWrite
    \/ V2SaveBatchRaises \/ V2SaveProgressOpen \/ V2SaveProgressWrite \/ V2NextBatch
    \/ V2Return \/ V2Merge

SpecLive == InitLive /\ [][NextLive]_vars /\ WF_vars(NextLive)

\* The first script, launched once.
NextV1 ==
    AttemptFails \/ V1AttemptParses \/ ErrorDelay \/ RateLimitDelay \/ V1Call \/ V1AfterCall \/ V1Save

SpecV1 == InitV1 /\ [][NextV1]_vars

\* merge_batches over a batches directory that earlier runs have filled: the
\* numbers of its stores (two of them around the width of the file names) and
\* the results they hold.
MergeNumbers == {1, 9999, 10000}

MergeQuestions == [id : {None, "", DefaultId(1), DefaultId(2)}, questionNumber : 1..MaxNumber]

MergeStores == {FileWith(qs) : qs \in UNION {[1..n -> MergeQuestions] : n \in 0..1}}

InitMerge ==
    /\ prog = "v2"
    /\ questions = <<[number |-> 1, valid |-> TRUE, correct_answer |-> "A"]>>
    /\ max_retries = 1 /\ launches = 1 /\ batch_size = 1
    /\ InitClient
    /\ InitNoAccounting
    /\ InitNoExtraction
    /\ InitNoValidation
    /\ InitNoParse
    /\ pc = "merge" /\ idx = 0 /\ all_results = <<>> /\ output = <<>> /\ exit_code = <<>>
    /\ failures = <<>>
    /\ resume = TRUE /\ dry_run = FALSE /\ progress = ZeroProgress
    /\ i = 0 /\ batch_num = 0 /\ actual_batch_num = 0 /\ batch_results = <<>> /\ runs = 1
    /\ summary_printed = TRUE
    /\ progress_file = NoFile /\ failed_log = <<>>
    /\ batch_files \in UNION {[D -> MergeStores] : D \in SUBSET MergeNumbers}

SpecMerge == InitMerge /\ [][V2Merge]_vars

\* find_section_bounds of either extractor, applied to a document.
InitBounds ==
    /\ prog \in {"pdf_extractor", "pdf_extractor_v3"}
    /\ questions = <<>>
    /\ max_retries = 1 /\ launches = 1 /\ batch_size = 1
    /\ InitClient
    /\ InitNoAccounting
    /\ pc = "find_section_bounds" /\ idx = 0 /\ all_results = <<>> /\ output = <<>>
    /\ exit_code = <<>> /\ failures = <<>>
    /\ InitNoRun
    /\ pages \in Documents
    /\ bounds = <<>>
    /\ InitNoValidation
    /\ InitNoParse

SpecBounds == InitBounds /\ [][FindSectionBounds]_vars

\* extract_physics_questions_improved applied to a section text.
InitParse ==
    /\ prog = "pdf_extractor"
    /\ questions = <<>>
    /\ max_retries = 1 /\ launches = 1 /\ batch_size = 1
    /\ InitClient
    /\ InitNoAccounting
    /\ pc = "extract" /\ idx = 0 /\ all_results = <<>> /\ output = <<>>
    /\ exit_code = <<>> /\ failures = <<>>
    /\ InitNoRun
    /\ InitNoExtraction
    /\ InitNoValidation
    /\ text_blocks \in SectionTexts
    /\ parsed = <<>>

SpecParse == InitParse /\ [][ExtractStrict]_vars

\* validate_question_completeness applied to a structured question.
InitValidate ==
    /\ prog = "question_validator"
    /\ questions = <<>>
    /\ max_retries = 1 /\ launches = 1 /\ batch_size = 1
    /\ InitClient
    /\ InitNoAccounting
    /\ pc = "validate" /\ idx = 0 /\ all_results = <<>> /\ output = <<>>
    /\ exit_code = <<>> /\ failures = <<>>
    /\ InitNoRun
    /\ InitNoExtraction
    /\ question \in {<<q>> : q \in StructuredQuestions}
    /\ validation = <<>>
    /\ InitNoParse

SpecValidate == InitValidate /\ [][Validate]_vars

\* A new CostTracker on which record_call is called up to MaxCalls times.
InitTracker ==
    /\ prog = "cost_tracker"
    /\ questions = <<>>
    /\ max_retries = 1 /\ launches = 1 /\ batch_size = 1
    /\ InitClient
    /\ recorded = <<>>
    /\ pc = "record_call" /\ idx = 0 /\ all_results = <<>> /\ output = <<>>
    /\ exit_code = <<>> /\ failures = <<>>
    /\ InitNoRun
    /\ InitNoExtraction
    /\ InitNoValidation
    /\ InitNoParse

SpecTracker == InitTracker /\ [][CostTrackerRecordCall]_vars

----------------------------------------------------------------------------
(* Properties of the generation clients (SpecClient) *)

\* The correctOption of the object the last attempt parsed.
LastAnswered == http_log[Len(http_log)][2]

\* call_claude_api has returned a result to its caller.
ClaudeReturned == prog = "claude" /\ cpc = "returned" /\ ret # <<>>

\* C1: every result call_claude_api returns for a record whose ground-truth
\* answer is g has correctOption = g, whatever the response contained.
C1_CorrectOptionIsGroundTruth ==
    ClaudeReturned => ret[1].correctOption = questions[cq].correct_answer

\* C1: a result was returned for a response whose correctOption was another
\* letter, or missing.
C1_ResponseDisagreed ==
    /\ ClaudeReturned
    /\ LastAnswered # questions[cq].correct_answer

\* The ids of the options of a result that are flagged isCorrect, and how many
\* options are flagged.
FlaggedIds(r) ==
    {r.options[k].id : k \in {j \in 1..Len(r.options) :
                                 "id" \in DOMAIN r.options[j] /\ r.options[j].isCorrect}}

FlaggedCount(r) == Cardinality({k \in 1..Len(r.options) : r.options[k].isCorrect})

\* C2: every result call_claude_api returns for a record with ground truth g
\* has exactly one option with isCorrect = true, and the id of that option is
\* g, for every response, also one whose correctOption is g already but whose
\* flags disagree.
C2_ExactlyOneCorrectFlag ==
    ClaudeReturned =>
        /\ FlaggedCount(ret[1]) = 1
        /\ FlaggedIds(ret[1]) = {questions[cq].correct_answer}

\* C4: no HTTP request is sent for a record that has no ground-truth answer, in
\* process_claude.main and in process_questions_in_batches.
C4_NoCallWithoutGroundTruth ==
    \A n \in sent : questions[n].correct_answer # None

\* The attempts of the invocation so far: none follows a successful one, and
\* the loop variable counts them.
AttemptsInOrder ==
    /\ \A k \in 1..(Len(http_log) - 1) : http_log[k][1] = "fail"
    /\ cpc = "attempt" =>
         /\ attempt = Len(http_log) + 1
         /\ \A k \in 1..Len(http_log) : http_log[k][1] = "fail"
    /\ cpc \in {"error_delay", "rate_limit_delay"} => attempt = Len(http_log)

\* C9: for one record the client makes at most max_retries HTTP attempts, and
\* at least one when max_retries >= 1; attempt k+1 is made only if attempts
\* 1..k all failed, and no attempt follows the first successful one.
C9_BoundedRetry ==
    /\ Len(http_log) <= max_retries
    /\ AttemptsInOrder
    /\ (cpc = "returned" /\ max_retries >= 1) => Len(http_log) >= 1
    /\ (cpc = "returned" /\ Len(http_log) < max_retries) =>
         http_log[Len(http_log)][1] = "ok"

\* C9: the last allowed attempt was made after a failed one, and succeeded.
C9_SecondAttemptSucceeds ==
    /\ cpc = "returned"
    /\ max_retries = 2
    /\ Len(http_log) = 2
    /\ http_log[1][1] = "fail"
    /\ http_log[2][1] = "ok"

\* C9 as stated: for one record the client makes at least one and at most
\* max_retries HTTP attempts.
C9_AtLeastOneAttempt ==
    cpc = "returned" => (Len(http_log) >= 1 /\ Len(http_log) <= max_retries)

\* Every attempt of the invocation that returned has failed.
RetriesExhausted ==
    /\ cpc = "returned"
    /\ \A k \in 1..Len(http_log) : http_log[k][1] = "fail"

\* C10: when every attempt for a record has failed, whatever the failures
\* were, the client returns the failure value to its caller, and the caller
\* goes on to the next record: main does not return 1, the results collected
\* so far are kept, and nothing but an interrupt ends the run.
C10_FailureIsPerRecord ==
    /\ [](RetriesExhausted => (ret = <<>> /\ pc = "call"))
    /\ [][(RetriesExhausted /\ pc' # pc) =>
            /\ exit_code' # <<1>>
            /\ \/ /\ pc' \in {"loop", "record"}
                  /\ idx' = idx + 1
                  /\ all_results' = all_results
                  /\ batch_results' = batch_results
               \/ /\ pc' = "idle"
                  /\ exit_code' \in {<<>>, <<130>>}]_vars

\* C10: the first record of a batch failed, and the client is called for the
\* second record of the same batch.
C10_NextRecordAfterFailure ==
    /\ prog = "v2" /\ pc = "call" /\ cpc = "attempt"
    /\ batch_size = 2 /\ i = 0 /\ cq = 2
    /\ <<questions[1].number, "failed">> \in generated

\* C11: every attempt of the client, successful or failed, is followed by one
\* rate_limit_delay pause before the next attempt starts and before the
\* result is returned to the caller.
C11_RateLimitPauseAfterAttempt ==
    [][/\ Len(http_log') > Len(http_log) => cpc' \in {"error_delay", "rate_limit_delay"}
       /\ (cpc = "error_delay" /\ cpc' # cpc) => cpc' \in {"rate_limit_delay", "idle"}
       /\ (cpc' = "attempt" /\ attempt' > 1 /\ attempt' # attempt) =>
            (cpc = "rate_limit_delay" /\ attempt' = attempt + 1)
       /\ (cpc' = "returned" /\ cpc # "returned" /\ http_log' # <<>>) =>
            cpc = "rate_limit_delay"
       /\ (cpc = "rate_limit_delay" /\ cpc' \in {"attempt", "returned"}) =>
            http_log' = http_log]_vars

\* C11: a second attempt has succeeded, and its result waits for the pause of
\* the finally block.
C11_ResultWaitsForPause ==
    /\ prog = "claude"
    /\ cpc = "rate_limit_delay"
    /\ pending # <<>>
    /\ attempt = 2

----------------------------------------------------------------------------
(* Properties of the first script (SpecV1) *)

\* C5: no record written to the final dataset is the record with a
\* substituted correctOption that stands for a question whose generation
\* failed after all retries.
C5_NoSubstitutedAnswer ==
    output # <<>> =>
        \A k \in 1..Len(output[1]) :
            /\ output[1][k] # V1Fallback(output[1][k].source_index)
            /\ ~InSeq(output[1][k].questionNumber, failures)

----------------------------------------------------------------------------
(* Properties of the batch pipeline (Spec, SpecResume) *)

\* The results a batch store holds.
Stored(b) == BatchFile(b).data

\* C3: every result in a batch store, and every question of the merged
\* dataset, has the correctOption that is the correct_answer of the raw record
\* it was generated from.
C3_BatchAnswerIntegrity ==
    /\ \A b \in DOMAIN batch_files : \A k \in 1..Len(Stored(b)) :
         Stored(b)[k].correctOption = questions[Stored(b)[k].source_index].correct_answer
    /\ output # <<>> =>
         \A k \in 1..Len(output[1]) :
            output[1][k].correctOption = questions[output[1][k].source_index].correct_answer

\* C6: in every state, also one a crash leaves, if the progress file records
\* last_completed_batch >= b, every result produced for batch b is in batch
\* store b.
C6_ProgressOnlyAfterBatch ==
    (/\ prog = "v2"
     /\ pc \in {"record", "call", "save_batch", "update_progress", "save_progress", "committed"}
     /\ progress_file.state = "ok"
     /\ LoadProgress(progress_file).last_completed_batch >= actual_batch_num)
    => \A k \in 1..Len(batch_results) : InSeq(batch_results[k], Stored(actual_batch_num))

\* C13: across every sequence of runs (resumed, restarted with resume
\* disabled, run after a crash) a batch store that was written is never written
\* again or changed.
C13_BatchStoreImmutable ==
    [][\A b \in DOMAIN batch_files :
          batch_files[b].state = "ok" =>
             (b \in DOMAIN batch_files' /\ batch_files'[b] = batch_files[b])]_vars

\* C14: within a run and across resumed runs each commit sets
\* last_completed_batch to exactly the previous value plus one, the batch that
\* is started is the one after the last committed batch, and within a batch the
\* records are attempted in input order.
C14_CommitsInOrder ==
    [][/\ (pc # "save_progress" /\ pc' = "save_progress") =>
            progress'.last_completed_batch = progress.last_completed_batch + 1
       /\ (pc = "batch_head" /\ pc' = "record") =>
            actual_batch_num' = progress.last_completed_batch + 1
       /\ (pc \in {"record", "call"} /\ pc' \in {"record", "call"}) =>
            idx' \in {idx, idx + 1}]_vars

\* The position a run starts from: what the progress file records when resume
\* is enabled and the file exists, index 0 and batch -1 otherwise.
C15_Committed ==
    IF resume /\ progress_file.state = "ok"
    THEN LoadProgressData(progress_file.data)
    ELSE ZeroProgress

\* C15: with resume enabled and a progress file recording next_question_index
\* = n and last_completed_batch = b, the first record a run considers is index
\* n, no record below n is sent and the first batch it commits is numbered
\* b + 1; with resume disabled or without a progress file the run starts at
\* index 0 and its first batch is numbered 0.
C15_ResumeAtCommittedPosition ==
    [][(prog = "v2" /\ batch_num = 0) =>
         /\ (pc = "batch_head" /\ pc' = "record") =>
               /\ idx' = C15_Committed.next_question_index + 1
               /\ actual_batch_num' = C15_Committed.last_completed_batch + 1
         /\ (pc = "record" /\ pc' = "call") =>
               \A n \in sent' : n > C15_Committed.next_question_index
         /\ (pc # "save_progress" /\ pc' = "save_progress") =>
               progress'.last_completed_batch = C15_Committed.last_completed_batch + 1]_vars

\* C15: a run resumed from a progress file with next_question_index = 1 and
\* last_completed_batch = 0 has sent the second record only and committed its
\* first batch as batch 1.
C15_ResumedSecondRecord ==
    /\ prog = "v2" /\ pc = "committed" /\ runs = 2 /\ resume /\ ~dry_run
    /\ batch_num = 0 /\ i = 1 /\ actual_batch_num = 1
    /\ sent = {2}
    /\ progress.last_completed_batch = 1

\* C16: a dry run makes no service call, writes no batch store, and changes no
\* persistent state other than the progress file: not the failure log, not
\* the dataset.
C16_DryRunOnlyWritesProgress ==
    [][(prog = "v2" /\ pc # "idle" /\ dry_run) =>
         /\ pc' # "call"
         /\ sent' = sent
         /\ batch_files' = batch_files
         /\ failed_log' = failed_log
         /\ output' = output]_vars

\* C17: whenever a run is over, also one that was killed inside save_progress,
\* the progress file is absent or holds one complete progress object, so that
\* load_progress succeeds in the next run.
C17_ProgressFileAtomic ==
    (prog = "v2" /\ pc = "idle") => ~LoadRaises(progress_file)

C19_MergeAlwaysWrites ==
    [][(prog = "v2" /\ pc = "merge" /\ ~MergeRaises
        /\ pc' = "idle" /\ exit_code' \notin {<<>>, <<130>>}) =>
         (output' = <<MergeBatches>> /\ exit_code' = <<0>>)]_vars

\* C19: the first run has merged its stores into a dataset the schema rejects.
C19_InvalidDatasetWritten ==
    /\ prog = "v2" /\ pc = "idle" /\ exit_code = <<0>> /\ runs = 1
    /\ output # <<>>
    /\ output[1] # <<>>
    /\ ~SchemaValid(output[1])

\* C20: for every document in which no page matches a start pattern,
\* find_section_bounds returns start_page = 0 and end_page = the number of
\* pages.
C20_BoundaryFallback ==
    (/\ pc = "done" /\ bounds # <<>>
     /\ \A k \in 1..Len(pages) : ~StartMatches(pages[k]))
    => bounds = <<0, Len(pages)>>

\* C21 as stated: for every document, also one of zero pages, the bounds
\* find_section_bounds returns satisfy 0 <= start_page < end_page <= page_count.
C21_BoundsOrdered ==
    (pc = "done" /\ bounds # <<>>) =>
        (0 <= bounds[1] /\ bounds[1] < bounds[2] /\ bounds[2] <= Len(pages))

\* C21: for every document of at least one page the bounds
\* find_section_bounds returns satisfy 0 <= start_page < end_page <= page_count.
C21_BoundsOrderedNonEmpty ==
    (pc = "done" /\ bounds # <<>> /\ pages # <<>>) =>
        (0 <= bounds[1] /\ bounds[1] < bounds[2] /\ bounds[2] <= Len(pages))

\* C21: the section starts on the third page, which also holds the header of
\* the next section, and ends with the document.
C21_StartOnLastPage ==
    /\ pc = "done" /\ Len(pages) = 3
    /\ pages[3] = {"PHYSICS", "CHEMISTRY"}
    /\ bounds = <<2, 3>>

\* The completeness rules a structured question violates; a rule about the
\* content of a field is not counted as violated when the field is missing.
ViolatedRules(q) ==
    (IF q.id = None THEN {"Missing required field: id"} ELSE {})
    \cup (IF q.questionText = <<>> THEN {"Missing required field: questionText"} ELSE {})
    \cup (IF q.options = <<>> THEN {"Missing required field: options"} ELSE {})
    \cup (IF q.correctOption = None THEN {"Missing required field: correctOption"} ELSE {})
    \cup (IF q.classification = <<>> THEN {"Missing required field: classification"} ELSE {})
    \cup (IF q.questionText # <<>> /\ q.questionText[1].length < 50
          THEN {"Question text too short"} ELSE {})
    \cup (IF q.questionText # <<>> /\ q.questionText[1].placeholder
          THEN {"Found placeholder pattern"} ELSE {})
    \cup (IF q.options # <<>> /\ Len(q.options[1]) # 4 THEN {"Expected 4 options"} ELSE {})
    \cup (IF q.options # <<>> /\ Len(q.options[1]) = 4
             /\ {q.options[1][k].id : k \in 1..4} # LetterSet
          THEN {"Invalid option IDs"} ELSE {})
    \cup (IF q.correctOption \notin LetterSet \cup {None} THEN {"Invalid correctOption"} ELSE {})
    \cup (IF q.classification # <<>> /\ q.classification[1].chapter \in {"", "unknown"}
          THEN {"Chapter is missing or placeholder"} ELSE {})
    \cup (IF q.classification # <<>> /\ q.classification[1].topic \in {"", "unknown"}
          THEN {"Topic is missing or placeholder"} ELSE {})
    \cup (IF q.classification # <<>> /\ q.classification[1].conceptTags < 2
          THEN {"Insufficient concept tags"} ELSE {})
    \cup (IF q.stepByStep = 0 THEN {"Missing stepByStep solution"} ELSE {})
    \cup (IF q.stepByStep = 1 THEN {"Solution too brief"} ELSE {})

\* C22: for every structured question, each completeness rule the question
\* violates has an entry in the list validate_question_completeness returns,
\* and the boolean is true only for an empty list.
C22_AllViolationsReported ==
    (prog = "question_validator" /\ pc = "done") =>
        /\ \A rule \in ViolatedRules(question[1]) : InSeq(rule, validation[2])
        /\ validation[1] <=> validation[2] = <<>>

\* The blocks of the text that have the strict form but for the digit of the
\* answer marker: a question text of 20 characters or more, four option texts
\* and an answer marker.
C23_HasStrictForm(b) == b.text_length >= 20 /\ b.option_length > 0 /\ b.answer > 0

\* C23: a block whose answer marker digit is outside 1..4 is emitted with its
\* ground-truth answer absent, and the blocks around it are parsed and emitted
\* as well: of a text whose blocks all have the strict form, every block is
\* emitted, in order, with the letter of its digit or with no answer.
C23_InvalidMarkerKeepsBlock ==
    (/\ prog = "pdf_extractor" /\ pc = "done"
     /\ \A k \in 1..Len(text_blocks) : C23_HasStrictForm(text_blocks[k]))
    => /\ Len(parsed) = Len(text_blocks)
       /\ \A k \in 1..Len(text_blocks) :
            /\ parsed[k].number = text_blocks[k].number
            /\ parsed[k].correct_answer = NumToLetter(text_blocks[k].answer)

\* The record the strict parser is to emit for a block.
C24_Expected(b) ==
    [number |-> b.number,
     text_length |-> b.text_length,
     options |-> <<b.option_length, b.option_length, b.option_length, b.option_length>>,
     correct_index |-> b.answer,
     correct_answer |-> NumToLetter(b.answer)]

\* The blocks that match the strict grammar.
C24_WellFormed(b) == C23_HasStrictForm(b) /\ b.answer \in 1..4

\* Whether the records of `sub` occur in `seq` in the same order.
RECURSIVE IsSubsequence(_, _)
IsSubsequence(sub, seq) ==
    IF sub = <<>> THEN TRUE
    ELSE IF seq = <<>> THEN FALSE
    ELSE IF Head(sub) = Head(seq) THEN IsSubsequence(Tail(sub), Tail(seq))
    ELSE IsSubsequence(sub, Tail(seq))

\* The expected records of the well-formed blocks, in the order of the text.
RECURSIVE C24_ExpectedRecords(_)
C24_ExpectedRecords(blocks) ==
    IF blocks = <<>> THEN <<>>
    ELSE (IF C24_WellFormed(Head(blocks)) THEN <<C24_Expected(Head(blocks))>> ELSE <<>>)
         \o C24_ExpectedRecords(Tail(blocks))

\* C24: for every block of the text that matches the strict grammar the
\* strict parser emits a record with the number of the block, its four
\* non-empty option texts in source order and the letter of its answer digit
\* (1->A, 2->B, 3->C, 4->D), and these records are in the order of the blocks.
C24_WellFormedBlocksParsed ==
    (prog = "pdf_extractor" /\ pc = "done") =>
        IsSubsequence(C24_ExpectedRecords(text_blocks), parsed)

\* C25: main returns 0, 1 or 130, and after it returned 130 for a user
\* interrupt, at whatever point of the run, the progress file holds a complete
\* progress object (or nothing was committed and there is no file).
C25_InterruptKeepsProgress ==
    (prog = "v2" /\ pc = "idle") =>
        /\ exit_code \in {<<>>, <<0>>, <<1>>, <<130>>}
        /\ exit_code = <<130>> => progress_file.state # "partial"

\* C26: process_questions_in_batches terminates, and when it returns normally
\* (main goes on to merge, or returns 0 after a dry run) the progress file
\* records a next_question_index of at least the number of records.
C26_ReachesDone ==
    /\ (prog = "v2" /\ pc = "batch_head") ~> (pc \in {"merge", "idle"})
    /\ [](prog = "v2" /\ (pc = "merge" \/ (pc = "idle" /\ exit_code = <<0>>)) =>
            /\ progress_file.state = "ok"
            /\ LoadProgress(progress_file).next_question_index >= Len(questions))

\* C26: a run over two records in two batches has returned normally.
C26_TwoBatchesDone ==
    /\ prog = "v2" /\ pc = "merge"
    /\ Len(questions) = 2 /\ batch_size = 1
    /\ batch_num = 2
    /\ LoadProgress(progress_file).next_question_index = 2

\* C27: no step of the pipeline, in whatever run, removes or rewrites an entry
\* of the failure log, and the orchestrator adds exactly one entry, naming the
\* record, for a record whose call came back with the retries exhausted.
C27_FailureLogAppendOnly ==
    [][/\ Len(failed_log') >= Len(failed_log)
       /\ SubSeq(failed_log', 1, Len(failed_log)) = failed_log
       /\ (prog = "v2" /\ pc = "call" /\ cpc = "returned" /\ ret = <<>> /\ pc' = "record") =>
            failed_log' = Append(failed_log, <<questions[idx].number, "API call failed">>)]_vars

\* C27: a run restarted with resume disabled has added the entry of a record
\* that exhausted its retries after the entry the first run wrote for it.
C27_EntriesOfTwoRuns ==
    /\ prog = "v2" /\ runs = 2 /\ ~resume /\ pc = "record"
    /\ failed_log = <<<<1, "API call failed">>, <<1, "API call failed">>>>

\* C28: whichever way a run or dry run ends in which main returns (normal
\* completion, a fatal processing or persistence error, a user interrupt), the
\* run summary has been printed.
C28_SummaryAlwaysPrinted ==
    [][(prog = "v2" /\ pc # "idle" /\ pc' = "idle" /\ exit_code' # <<>>) =>
         summary_printed']_vars

\* C29: start_page is the smallest page index whose text matches a start
\* pattern (0 if there is none), end_page is the smallest page index greater
\* than start_page whose text matches an end pattern (the number of pages if
\* there is none); an end pattern on the start page or before it does not end
\* the section.
C29_FirstMatchesWin ==
    (prog \in {"pdf_extractor", "pdf_extractor_v3"} /\ pc = "done" /\ bounds # <<>>) =>
        LET start_page == bounds[1]
            end_page == bounds[2]
            page_count == Len(pages)
        IN /\ \/ start_page = 0 /\ \A k \in 1..page_count : ~StartMatches(pages[k])
              \/ /\ start_page \in 0..(page_count - 1)
                 /\ StartMatches(pages[start_page + 1])
                 /\ \A k \in 1..start_page : ~StartMatches(pages[k])
           /\ \/ /\ end_page = page_count
                 /\ \A k \in (start_page + 2)..page_count : ~EndMatches(pages[k])
              \/ /\ end_page \in (start_page + 1)..(page_count - 1)
                 /\ EndMatches(pages[end_page + 1])
                 /\ \A k \in (start_page + 2)..end_page : ~EndMatches(pages[k])

\* C29: the first page and the start page hold an end header, the section
\* starts on the second page and ends at the third.
C29_EndHeaderBeforeStart ==
    /\ pc = "done" /\ Len(pages) = 3
    /\ pages[1] = {"CHEMISTRY"}
    /\ pages[2] = {"PHYSICS", "CHEMISTRY"}
    /\ pages[3] = {"PHYSICS", "CHEMISTRY"}
    /\ bounds = <<1, 2>>

\* One step of a client whose pauses follow the failed attempts in order.
PausesInOrder ==
    LET failed == http_log # <<>> /\ http_log[Len(http_log)][1] = "fail"
        fails == Len(http_log') > Len(http_log) /\ http_log'[Len(http_log')][1] = "fail"
    IN \/ prog \notin {"claude", "v2"}
       \/ /\ fails =>
                (/\ cpc = "attempt"
                 /\ attempt' = attempt
                 /\ cpc' = IF attempt < max_retries THEN "error_delay"
                           ELSE "rate_limit_delay")
          /\ (cpc = "error_delay" /\ cpc' \notin {"error_delay", "idle"}) =>
                (/\ failed /\ attempt < max_retries
                 /\ cpc' = "rate_limit_delay" /\ attempt' = attempt
                 /\ http_log' = http_log)
          /\ (cpc = "rate_limit_delay" /\ failed /\ cpc' \notin {"rate_limit_delay", "idle"}) =>
                (/\ http_log' = http_log
                 /\ IF attempt < max_retries
                    THEN cpc' = "attempt" /\ attempt' = attempt + 1
                    ELSE cpc' = "returned" /\ ret' = <<>>)
          /\ (cpc' = "attempt" /\ attempt' > 1 /\ attempt' # attempt) =>
                (cpc = "rate_limit_delay" /\ failed)
          /\ (cpc' = "error_delay") => (cpc \in {"attempt", "error_delay"})

\* C30: in call_claude_api and call_perplexity_api a failed attempt k that is
\* not the last allowed one is followed by one error_delay pause, then one
\* rate_limit_delay pause, then attempt k + 1; the last allowed attempt, when
\* it fails, is followed by the rate_limit_delay pause alone and the failure
\* is returned.
C30_ErrorPauseBetweenAttempts == [][PausesInOrder]_vars

\* C30: the second of two allowed attempts has failed after the first one, and
\* the client is in the pause of the finally block without an error pause.
C30_LastFailureSkipsErrorPause ==
    /\ prog \in {"claude", "v2"}
    /\ cpc = "rate_limit_delay"
    /\ max_retries = 2 /\ attempt = 2
    /\ Len(http_log) = 2
    /\ http_log[1][1] = "fail" /\ http_log[2][1] = "fail"

\* The reasons a failure-log entry of an incomplete result can carry.
ValidationReasons ==
    {"Validation: " \o e : e \in {"Missing required field: correctOption", "Expected 4 options",
                                   "Invalid option IDs", "Invalid correctOption"}}

\* Whether a result breaks a rule of validate_question_completeness.
Incomplete(sq) ==
    \/ sq.questionText = None
    \/ sq.correctOption \notin LetterSet
    \/ Len(sq.options) # 4
    \/ {sq.options[k].id : k \in 1..Len(sq.options)} # LetterSet

\* One step of an orchestrator for which an incomplete result is a soft failure.
SoftFailure ==
    (/\ prog = "v2" /\ pc = "call" /\ cpc = "returned" /\ ret # <<>>
     /\ Incomplete(ret[1])
     /\ pc' = "record" \/ exit_code' = <<1>>) =>
        (/\ pc' = "record"
         /\ batch_results' = Append(batch_results, ret[1])
         /\ all_results' = Append(all_results, ret[1])
         /\ progress'.processed_question_ids =
              Append(progress.processed_question_ids, questions[idx].number)
         /\ Len(failed_log') = Len(failed_log) + 1
         /\ SubSeq(failed_log', 1, Len(failed_log)) = failed_log
         /\ failed_log'[Len(failed_log')][1] = questions[idx].number
         /\ failed_log'[Len(failed_log')][2] \in ValidationReasons)

\* C31: a generated record that fails validate_question_completeness is still
\* appended to the batch results and to processed_question_ids like a valid
\* one, and one failure-log entry carrying a violated rule is written for it.
C31_ValidationIsSoftFailure == [][SoftFailure]_vars

\* No element occurs twice in seq.
NoDuplicates(seq) == \A a, b \in 1..Len(seq) : seq[a] = seq[b] => a = b

\* One step of an orchestrator that skips the processed records.
SkipsProcessed ==
    LET ids == progress.processed_question_ids
    IN prog = "v2" =>
        (/\ (cpc = "attempt" /\ Len(http_log') > Len(http_log)) =>
                ~InSeq(questions[cq].number, ids)
         /\ (Len(batch_results') > Len(batch_results)) =>
                ~InSeq(batch_results'[Len(batch_results')].questionNumber, ids)
         /\ NoDuplicates(progress'.processed_question_ids)
         /\ progress_file'.state = "ok" => NoDuplicates(progress_file'.data[3]))

\* C32: a record whose question number is in processed_question_ids is not
\* sent to the generation service and not added to a batch again, and no
\* question number is in processed_question_ids twice.
C32_ProcessedRecordsSkipped == [][SkipsProcessed]_vars

\* C32: the second record has the number of the first one, which was
\* processed in this run, and was skipped without a call.
C32_SecondRecordSkipped ==
    /\ prog = "v2" /\ pc = "record" /\ idx = 3
    /\ Len(questions) = 2 /\ batch_size = 2
    /\ questions[1].number = questions[2].number
    /\ questions[2].valid
    /\ ~dry_run
    /\ progress.processed_question_ids = <<questions[1].number>>
    /\ sent = {1}

\* C33: after a non-dry run every committed batch has its batch store: a
\* complete batch file numbered b is on disk for every b from 0 to the
\* persisted last_completed_batch.
C33_CommittedBatchesStored ==
    (/\ prog = "v2" /\ runs = 1 /\ pc = "idle" /\ exit_code = <<0>> /\ ~dry_run
     /\ progress_file.state = "ok") =>
        \A b \in 0..progress_file.data[1] : BatchFile(b).state = "ok"

\* One commit step: the index that is persisted is the end of the batch, it is
\* inside the input, and, when `monotone`, not below the index of the file
\* the commit replaces.
CommitsIndex(monotone) ==
    LET total_records == Len(questions)
    IN prog = "v2" =>
        (/\ (pc # "save_progress" /\ pc' = "save_progress") =>
               (/\ progress'.next_question_index = Min(i + batch_size, total_records)
                /\ progress'.next_question_index \in 0..total_records
                /\ (monotone /\ progress_file.state = "ok") =>
                       progress'.next_question_index >= progress_file.data[2])
         /\ (progress_file' # progress_file /\ progress_file'.state = "ok") =>
               (/\ pc = "save_progress"
                /\ progress_file'.data[2] = progress.next_question_index)
         /\ progress_file'.state = "ok" => progress_file'.data[2] \in 0..total_records)

\* C34 as stated: for a fixed input the persisted next_question_index never
\* decreases, is always in 0..total_records, and the commit of the batch that
\* starts at index i sets it to min(i + batch_size, total_records).
C34_IndexNeverDecreases == [][CommitsIndex(TRUE)]_vars

\* C34: the persisted next_question_index is always in 0..total_records, the
\* commit of the batch that starts at index i sets it to
\* min(i + batch_size, total_records), and it never decreases within a run
\* and across runs that resume; the first commit of a run started with resume
\* disabled may lower it.
C34_IndexNeverDecreasesOnResume == [][CommitsIndex(resume \/ batch_num > 0)]_vars

\* C34: a resumed second run has committed the second record's batch over a
\* progress file that recorded index 1.
C34_ResumedCommit ==
    /\ prog = "v2" /\ pc = "committed" /\ runs = 2 /\ resume
    /\ Len(questions) = 2 /\ batch_size = 1 /\ i = 1
    /\ progress_file.state = "ok" /\ progress_file.data[2] = 2

\* C35: in a run started with resume disabled, every question of the dataset
\* merge_batches writes is a result of that run: none comes only from a batch
\* store an earlier run left on disk.
C35_DatasetOfCurrentProgress ==
    [][(prog = "v2" /\ pc = "merge" /\ ~resume /\ output' # output /\ output' # <<>>) =>
         \A k \in 1..Len(output'[1]) : InSeq(output'[1][k], all_results)]_vars

\* C36: a non-dry run with resume enabled that follows a completed dry run
\* over the same list starts at or before every valid record that is not yet
\* processed, so that it still sends each of them to the generation service.
C36_DryRunLeavesWorkload ==
    [][(/\ prog = "v2" /\ pc = "idle" /\ runs = 1 /\ dry_run /\ exit_code = <<0>>
        /\ pc' = "batch_head" /\ resume' /\ ~dry_run') =>
         \A n \in 1..Len(questions) :
            (/\ questions[n].valid
             /\ ~InSeq(questions[n].number, progress'.processed_question_ids)) => n > i']_vars

\* C37: over one invocation of call_claude_api or call_perplexity_api
\* total_calls grows by the number of attempts made, and successful_calls by 1
\* if the invocation returns a structured question and by 0 if it returns
\* failure.
C37_EachAttemptRecordedOnce ==
    (prog \in {"claude", "v2"} /\ cpc = "returned") =>
        /\ cost_tracker.total_calls - tracker_at_call.total_calls = Len(http_log)
        /\ cost_tracker.successful_calls - tracker_at_call.successful_calls =
             IF ret # <<>> THEN 1 ELSE 0

\* The sum of the k-th arguments of the recorded calls.
RECURSIVE SumOf(_, _)
SumOf(calls, k) == IF calls = <<>> THEN 0 ELSE Head(calls)[k] + SumOf(Tail(calls), k)

\* The number of recorded calls whose success flag is flag.
CallsWith(calls, flag) == Cardinality({n \in 1..Len(calls) : calls[n][3] = flag})

\* One step of a tracker that keeps its counters consistent.
CountersConsistent ==
    prog = "cost_tracker" =>
        (/\ cost_tracker'.total_calls =
               cost_tracker'.successful_calls + cost_tracker'.failed_calls
         /\ cost_tracker'.total_calls = Len(recorded')
         /\ cost_tracker'.successful_calls = CallsWith(recorded', TRUE)
         /\ cost_tracker'.failed_calls = CallsWith(recorded', FALSE)
         /\ cost_tracker'.input_tokens = SumOf(recorded', 1)
         /\ cost_tracker'.output_tokens = SumOf(recorded', 2)
         /\ cost_tracker'.total_calls >= cost_tracker.total_calls
         /\ cost_tracker'.successful_calls >= cost_tracker.successful_calls
         /\ cost_tracker'.failed_calls >= cost_tracker.failed_calls
         /\ cost_tracker'.input_tokens >= cost_tracker.input_tokens
         /\ cost_tracker'.output_tokens >= cost_tracker.output_tokens)

\* C38: after any sequence of record_call operations with non-negative token
\* counts total_calls = successful_calls + failed_calls, input_tokens and
\* output_tokens are the sums of the recorded counts, and no counter ever
\* decreases.
C38_CountersConsistent == [][CountersConsistent]_vars

\* C38: a successful and a failed call with different token counts were
\* recorded.
C38_MixedCallsRecorded ==
    /\ prog = "cost_tracker"
    /\ recorded = <<<<2, 1, TRUE>>, <<1, 0, FALSE>>>>
    /\ cost_tracker = [total_calls |-> 2, input_tokens |-> 3, output_tokens |-> 1,
                       successful_calls |-> 1, failed_calls |-> 1]

\* The stores in ascending order of their batch numbers.
RECURSIVE Ascending(_)
Ascending(S) ==
    IF S = {} THEN <<>>
    ELSE LET m == CHOOSE x \in S : \A y \in S : x <= y
         IN <<m>> \o Ascending(S \ {m})

\* The stored results, store after store, in the order `numbers`.
RECURSIVE StoredInOrder(_)
StoredInOrder(numbers) ==
    IF numbers = <<>> THEN <<>>
    ELSE Stored(Head(numbers)) \o StoredInOrder(Tail(numbers))

\* The first of the results `seq` that has the id.
FirstWithId(seq, id) ==
    seq[CHOOSE k \in 1..Len(seq) : seq[k].id = id /\ \A j \in 1..(k - 1) : seq[j].id # id]

\* metadata.totalQuestions of the dataset merge_batches builds (line 407).
TotalQuestions == Len(MergeBatches)

\* C12: the merged dataset holds each id at most once, the entry kept for an
\* id is its first occurrence in ascending batch-number order, every id that
\* occurs in a batch store occurs in the dataset, and metadata.totalQuestions
\* is the number of questions of the dataset.
C12_MergeDeduplicates ==
    (prog = "v2" /\ pc = "idle" /\ exit_code = <<0>> /\ output # <<>>) =>
        LET dataset == output[1]
            stored == StoredInOrder(Ascending(DOMAIN batch_files))
        IN /\ \A j \in 1..Len(dataset), k \in 1..Len(dataset) :
                 dataset[j].id = dataset[k].id => j = k
           /\ \A k \in 1..Len(dataset) : dataset[k] = FirstWithId(stored, dataset[k].id)
           /\ \A k \in 1..Len(stored) :
                 stored[k].id \notin {None, ""} =>
                    \E j \in 1..Len(dataset) : dataset[j].id = stored[k].id
           /\ TotalQuestions = Len(dataset)

\* The ids of the questions of the merged dataset.
OutputIds == {output[1][k].id : k \in 1..Len(output[1])}

\* Every question number had one outcome whenever it was generated.
FixedOutcomes == \A a \in generated, b \in generated : a[1] = b[1] => a[2] = b[2]

OutcomeOf(number) == (CHOOSE g \in generated : g[1] = number)[2]

\* The ids one uninterrupted pass over questions[k..] produces, given the
\* numbers processed so far; "unknown" for a record no outcome is known of.
RECURSIVE OnePassIds(_, _)
OnePassIds(k, processed) ==
    IF k > Len(questions) THEN {}
    ELSE LET q == questions[k] IN
         IF q.number \in processed \/ ~q.valid THEN OnePassIds(k + 1, processed)
         ELSE IF \A g \in generated : g[1] # q.number
              THEN {"unknown"} \cup OnePassIds(k + 1, processed)
         ELSE IF OutcomeOf(q.number) = "failed" THEN OnePassIds(k + 1, processed)
         ELSE {OutcomeOf(q.number)} \cup OnePassIds(k + 1, processed \cup {q.number})

\* C7: when the outcome of a record is a fixed function of the record, the
\* dataset merged after a run over the whole list, and the one merged after a
\* run interrupted after a committed batch and a resumed run, hold the ids of
\* one uninterrupted pass.
C7_ResumeIdempotence ==
    (/\ prog = "v2" /\ pc = "idle" /\ exit_code = <<0>> /\ output # <<>>
     /\ FixedOutcomes)
    => OutputIds = OnePassIds(1, {})

\* C7: the first run was interrupted after it committed batch 0, the resumed
\* run stored the rest as batch 1, and the merged dataset has both questions.
C7_InterruptedAndResumed ==
    /\ prog = "v2" /\ pc = "idle" /\ exit_code = <<0>> /\ output # <<>>
    /\ runs = 2
    /\ FixedOutcomes
    /\ DOMAIN batch_files = {0, 1}
    /\ Cardinality(OutputIds) = 2

\* C8: a batch in which records exhaust their retries is committed all the
\* same: its batch store holds exactly the results of the batch, in input
\* order, the progress file records the batch, and next_question_index is past
\* every index of the batch.
C8_PartialFailureTolerated ==
    (prog = "v2" /\ pc = "committed" /\ ~dry_run) =>
        /\ BatchFile(actual_batch_num).state # "partial"
        /\ Stored(actual_batch_num) = batch_results
        /\ \A k \in 1..Len(batch_results) :
             /\ batch_results[k].source_index \in (i + 1)..BatchEnd
             /\ k > 1 => batch_results[k - 1].source_index < batch_results[k].source_index
        /\ progress_file = FileWith(DumpProgress(progress))
        /\ progress.last_completed_batch = actual_batch_num
        /\ progress.next_question_index = BatchEnd

====
